---------------------------- MODULE Spec2Model ----------------------------
(***************************************************************************)
(* Model of the crypto dashboard's server side:                            *)
(*   - axiosGetWithRetry, the retry/backoff helper of src/lib/api.ts       *)
(*   - the markets and categories proxy routes with their one-slot cache   *)
(*   - the per-coin chart proxy route                                      *)
(*   - the three mappers from an upstream market record to a Coin          *)
(*   - getAllHighlightsPayload, the six-way highlights fetch                *)
(*   - the useCoins hook                                                   *)
(*   - the dashboard page's highlights loading                              *)
(*   - the FiltersTabs component                                           *)
(***************************************************************************)
EXTENDS Integers, Sequences, FiniteSets, TLC

VARIABLES
    \* ---- one call of axiosGetWithRetry ----
    rpc,         \* position of the call: idle, get, sleep, returned, thrown
    maxRetries,  \* the maxRetries argument
    attempt,     \* let attempt
    lastErr,     \* let lastErr
    wait,        \* let wait (the value handed to sleep)
    result,      \* resp.data returned to the caller
    thrown,      \* the error thrown to the caller
    gets,        \* history: number of CG.get calls issued
    waits,       \* history: the durations slept, in order
    statuses,    \* history: the status of each upstream response, in order
    hinted,      \* history: some failed response carried a retry-after header
    \* ---- the proxy routes ----
    now,         \* Date.now()
    ticks,       \* number of clock advances so far
    mCache,      \* `cache` of app/api/markets/route.ts
    cCache,      \* `cache` of app/api/categories/route.ts
    reqs,        \* the inbound requests, by id
    putAt,       \* history: the time each slot was last written
    parsed,      \* history: the payloads parsed from upstream 2xx responses
    upstreamCalls, \* history: number of fetch calls to the upstream, by endpoint
    event,       \* history: what the latest handler step found and did
    \* ---- the mappers ----
    rawCoin,     \* an upstream market record
    mapped,      \* what each mapper returns for it
    \* ---- one call of getAllHighlightsPayload ----
    hlPc,        \* position of the call: idle, waiting, resolved, rejected
    subs,        \* how each of the six sub-fetches settled, or pending
    hlPayload,   \* the object the call resolved with
    \* ---- one mounted useCoins hook ----
    coins,       \* state coins
    loading,     \* state loading
    error,       \* state error
    enabled,     \* paramsRef.current.enabled
    mountedRef,  \* mountedRef.current
    controllerRef, \* the load whose AbortController is controllerRef.current
    loads,       \* the calls of load, by number
    hookEvent,   \* history: what the latest step of the hook did
    \* ---- the dashboard page ----
    activeTab,   \* state activeTab
    payloadRef,  \* payloadRef.current
    loadingHighlights, \* state loadingHighlights
    highlightsError,   \* state highlightsError
    hLoads,      \* the runs of loadHighlights that called the API, by number
    tabChanges,  \* number of tab changes so far
    pageEvent,   \* history: what the latest step of the page did
    \* ---- the FiltersTabs component ----
    active,      \* prop active, as the parent's onChange sets it
    focusIdx,    \* index of the tab button that has the focus, or -1
    onChangeCalls, \* history: number of calls of onChange
    inputs,      \* number of user inputs so far
    tabsEvent    \* history: the latest user input and what it found

retryVars == <<rpc, maxRetries, attempt, lastErr, wait, result, thrown,
               gets, waits, statuses, hinted>>

cacheVars == <<now, ticks, mCache, cCache, reqs, putAt, parsed, upstreamCalls,
               event>>

mapVars == <<rawCoin, mapped>>

hlVars == <<hlPc, subs, hlPayload>>

\* the state of the code that runs in the browser
hookVars == <<coins, loading, error, enabled, mountedRef, controllerRef,
              loads, hookEvent>>

pageVars == <<activeTab, payloadRef, loadingHighlights, highlightsError,
              hLoads, tabChanges, pageEvent>>

tabsVars == <<active, focusIdx, onChangeCalls, inputs, tabsEvent>>

clientVars == <<mapVars, hlVars, hookVars, pageVars, tabsVars>>

vars == <<retryVars, cacheVars, clientVars>>

-----------------------------------------------------------------------------
(* Bounds of the model *)

MaxRetriesBound == 3
MaxRequests == 2
MaxTicks == 2
MaxLoads == 3
MaxTabChanges == 3
MaxInputs == 3

-----------------------------------------------------------------------------
(* Values *)

Absent == "absent"        \* undefined
NoStatus == -1            \* status === undefined
NoErr == [kind |-> "null", status |-> NoStatus, lo |-> Absent, up |-> Absent,
          seq |-> 0]
NoBody == "nobody"
Bodies == {"bodyA", "bodyB"}

\* Raw values a retry-after header is seen with.
RetryAfterRaws == {"abc", "0", "-1", "0.5", "1", "3"}

\* Statuses for which axios rejects (validateStatus: outside 2xx).
RetryableStatuses == {429, 500, 599}
OtherStatuses == {400, 404, 499, 600}
FailStatuses == RetryableStatuses \cup OtherStatuses

\* The two spellings of the header the code reads: "retry-after" alone, or
\* "Retry-After" alone, or both.
HeaderPairs ==
    { <<l, Absent>> : l \in RetryAfterRaws \cup {Absent} }
        \cup { <<Absent, "3">>, <<"abc", "3">> }

\* An AxiosError with a response: status and headers.
HttpErrors(n) ==
    { [kind |-> "axios", status |-> s, lo |-> h[1], up |-> h[2], seq |-> n] :
        s \in FailStatuses, h \in HeaderPairs }

\* An AxiosError without a response (DNS, timeout, reset), or a plain Error.
TransportErrors(n) ==
    { [kind |-> k, status |-> NoStatus, lo |-> Absent, up |-> Absent, seq |-> n] :
        k \in {"axios-noresponse", "error"} }

-----------------------------------------------------------------------------
(* Pure helpers of axiosGetWithRetry *)

RECURSIVE Pow2(_)
Pow2(n) == IF n <= 0 THEN 1 ELSE 2 * Pow2(n - 1)

Max(a, b) == IF a >= b THEN a ELSE b

\* Number(String(raRaw)), in thousandths so that "0.5" is representable.
NumberMilli(raw) ==
    CASE raw = ""    -> [nan |-> FALSE, milli |-> 0]
      [] raw = "0"   -> [nan |-> FALSE, milli |-> 0]
      [] raw = "-1"  -> [nan |-> FALSE, milli |-> -1000]
      [] raw = "0.5" -> [nan |-> FALSE, milli |-> 500]
      [] raw = "1"   -> [nan |-> FALSE, milli |-> 1000]
      [] raw = "3"   -> [nan |-> FALSE, milli |-> 3000]
      [] OTHER       -> [nan |-> TRUE, milli |-> 0]

\* variant: every failure that carries an HTTP status is retried
IsRetryableAnyHttp(status) == status # NoStatus

\* variant: the upper limit of the 5xx range is dropped
IsRetryableNoUpper(status) ==
    \/ status = 429
    \/ (status # NoStatus /\ status >= 500)

\* variant: a missing status is taken for a server-side failure
IsRetryableNoTypeCheck(status) ==
    \/ status = 429
    \/ status = NoStatus
    \/ (status >= 500 /\ status < 600)

\* status === 429 || (typeof status === "number" && status >= 500 && status < 600)
IsRetryable(status) ==
    \/ status = 429
    \/ (status # NoStatus /\ status >= 500 /\ status < 600)

\* headers["retry-after"] ?? headers["Retry-After"]
RaRaw(err) == IF err.lo # Absent THEN err.lo ELSE err.up

\* variant: the exponent starts at 1 (1000, 2000, ...)
BackoffFromOne(n) == 500 * Pow2(n + 1)

\* 500 * Math.pow(2, attempt)
Backoff(n) == 500 * Pow2(n)

\* variant: the header replaces the computed backoff instead of Math.max
ComputeWaitHeaderWins(err, n) ==
    LET raRaw == RaRaw(err)
        raNum == IF raRaw # Absent THEN NumberMilli(raRaw)
                 ELSE [nan |-> TRUE, milli |-> 0]
    IN  IF ~raNum.nan /\ raNum.milli > 0
        THEN raNum.milli
        ELSE Backoff(n)

\* the wait computed in the catch block for a retryable error
ComputeWait(err, n) ==
    LET raRaw == RaRaw(err)
        raNum == IF raRaw # Absent THEN NumberMilli(raRaw)
                 ELSE [nan |-> TRUE, milli |-> 0]
    IN  IF ~raNum.nan /\ raNum.milli > 0
        THEN Max(Backoff(n), raNum.milli)
        ELSE Backoff(n)

\* variant: off by one, the last retry is never made
LoopCondStrict(a, m) == a < m

\* variant: the loop has no bound
LoopCondAlways(a, m) == TRUE

\* while (attempt <= maxRetries)
LoopCond(a, m) == a <= m

-----------------------------------------------------------------------------
(* axiosGetWithRetry *)

RetryInit ==
    /\ rpc = "idle"
    /\ maxRetries = 0
    /\ attempt = 0
    /\ lastErr = NoErr
    /\ wait = 0
    /\ result = NoBody
    /\ thrown = NoErr
    /\ gets = 0
    /\ waits = <<>>
    /\ statuses = <<>>
    /\ hinted = FALSE

\* entry: let attempt = 0; let lastErr = null; first loop test
Call ==
    /\ rpc = "idle"
    /\ \E n \in 0..MaxRetriesBound :
        /\ maxRetries' = n
        /\ attempt' = 0
        /\ lastErr' = NoErr
        /\ IF LoopCond(0, n)
           THEN rpc' = "get" /\ thrown' = thrown
           ELSE rpc' = "thrown" /\ thrown' = NoErr
    /\ UNCHANGED <<wait, result, gets, waits, statuses, hinted>>
    /\ UNCHANGED <<cacheVars, clientVars>>

\* const resp = await CG.get(path, config); return resp.data;
GetOk ==
    /\ rpc = "get"
    /\ gets <= MaxRetriesBound + 1
    /\ \E b \in Bodies :
        /\ result' = b
        /\ rpc' = "returned"
    /\ gets' = gets + 1
    /\ statuses' = Append(statuses, 200)
    /\ UNCHANGED <<maxRetries, attempt, lastErr, wait, thrown, waits, hinted>>
    /\ UNCHANGED <<cacheVars, clientVars>>

\* CG.get rejects: the catch block up to `throw err` or `await sleep(wait)`
GetFail ==
    /\ rpc = "get"
    /\ gets <= MaxRetriesBound + 1
    /\ \E err \in HttpErrors(gets + 1) \cup TransportErrors(gets + 1) :
        /\ lastErr' = err
        /\ statuses' = Append(statuses, err.status)
        /\ hinted' = (hinted \/ err.lo # Absent \/ err.up # Absent)
        /\ IF ~IsRetryable(err.status)
           THEN /\ rpc' = "thrown"
                /\ thrown' = err
                /\ UNCHANGED <<wait, waits>>
           ELSE /\ rpc' = "sleep"
                /\ wait' = ComputeWait(err, attempt)
                /\ waits' = Append(waits, wait')
                /\ UNCHANGED thrown
    /\ gets' = gets + 1
    /\ UNCHANGED <<maxRetries, attempt, result>>
    /\ UNCHANGED <<cacheVars, clientVars>>

\* the sleep ends: attempt++; loop test; after the loop, throw lastErr
Wake ==
    /\ rpc = "sleep"
    /\ attempt' = attempt + 1
    /\ IF LoopCond(attempt + 1, maxRetries)
       THEN rpc' = "get" /\ UNCHANGED thrown
       ELSE rpc' = "thrown" /\ thrown' = lastErr
    /\ UNCHANGED <<maxRetries, lastErr, wait, result, gets, waits, statuses,
                   hinted>>
    /\ UNCHANGED <<cacheVars, clientVars>>

RetryNext == Call \/ GetOk \/ GetFail \/ Wake

-----------------------------------------------------------------------------
(* The proxy routes: app/api/markets/route.ts, app/api/categories/route.ts, *)
(* app/api/market-chart/[id]/route.ts                                       *)

CACHE_TTL == 30000

Null == [null |-> TRUE]            \* let cache = null
ReqIds == 1..MaxRequests
Queries == {"", "?page=2"}         \* incoming.search || ""
Deltas == {10, CACHE_TTL - 10}
NotOkStatuses == {404, 503}

\* what the upstream answers to the fetch of request r for query q; its data
\* change over time, so that no two fetches get the same payload
UpstreamOutcomes(r, q) ==
    { [kind |-> "json", status |-> 200, body |-> [q |-> q, v |-> r]] }
    \cup { [kind |-> "notok", status |-> st, body |-> [errorText |-> st],
             readable |-> TRUE] : st \in NotOkStatuses }
    \cup { [kind |-> "notok", status |-> 503, body |-> [errorText |-> 503],
             readable |-> FALSE] }
    \cup { [kind |-> "badjson", status |-> 200, body |-> [garbage |-> q]],
           [kind |-> "throws", status |-> 0, body |-> [garbage |-> q]] }

\* the text "" that res.text().catch(() => "") falls back to
EmptyText == [errorText |-> 0]

\* ctx.params.id: a string, undefined, or an array of strings
RawIds ==
    { [isArray |-> FALSE, v |-> x] : x \in {Absent, "", "bitcoin"} }
        \cup { [isArray |-> TRUE, vs |-> xs] :
                   xs \in {<<>>, <<"", "bitcoin">>, <<"bitcoin", "eth">>} }

\* Array.isArray(rawId) ? rawId[0] : rawId
ChartId(rawId) ==
    IF rawId.isArray
    THEN IF Len(rawId.vs) > 0 THEN rawId.vs[1] ELSE Absent
    ELSE rawId.v

\* variant: the id is only tested for being defined
IdGivenIfDefined(id) == id # Absent

\* !id is false
IdGiven(id) == id # Absent /\ id # ""

NewReq == [pc |-> "new"]
DoneReq == [pc |-> "done"]
NoEvent == [type |-> "none"]

\* variant: an entry of exactly CACHE_TTL ms still counts as fresh
MarketsFreshInclusive(cache, cacheKey, t) ==
    /\ cache # Null
    /\ cache.key = cacheKey
    /\ t - cache.timestamp <= CACHE_TTL

\* variant: the age test is inverted
MarketsFreshInverted(cache, cacheKey, t) ==
    /\ cache # Null
    /\ cache.key = cacheKey
    /\ t - cache.timestamp >= CACHE_TTL

\* variant: the key of the entry is not compared
MarketsFreshAnyKey(cache, cacheKey, t) ==
    /\ cache # Null
    /\ t - cache.timestamp < CACHE_TTL

\* cache && cache.key === cacheKey && now - cache.timestamp < CACHE_TTL
MarketsFresh(cache, cacheKey, t) ==
    /\ cache # Null
    /\ cache.key = cacheKey
    /\ t - cache.timestamp < CACHE_TTL

\* cache && now - cache.timestamp < CACHE_TTL
CategoriesFresh(cache, t) ==
    /\ cache # Null
    /\ t - cache.timestamp < CACHE_TTL

\* a response sent by a route handler
Response(status, body) == [status |-> status, body |-> body]

\* the arrival of a request: what it found in the slot, whether it was
\* answered from it (then with which response) or went to the upstream
Arrived(ep, key, slot, slotPutAt, hit, resp) ==
    [type |-> "arrive", ep |-> ep, key |-> key, at |-> now, seen |-> slot,
     seenPutAt |-> slotPutAt, callsBefore |-> upstreamCalls[ep],
     hit |-> hit, resp |-> resp]

\* the settling of the fetch of request rq: what the upstream did (o), the
\* response
Settled(rq, o, resp) ==
    [type |-> "settle", ep |-> rq.ep, key |-> rq.key,
     fetches |-> rq.fetches, outcome |-> o.kind, ustatus |-> o.status,
     utext |-> IF o.kind = "notok" /\ o.readable THEN o.body ELSE EmptyText,
     resp |-> resp]

\* a request that has called fetch and awaits it
Fetching(ep, key) ==
    [pc |-> "fetching", ep |-> ep, key |-> key, now |-> now, fetches |-> 1]

NoResponse == Response(0, Null)

\* variant: the upstream's status becomes the status of the response and
\* 502 goes into the body
SettleResultPassStatus(o) ==
    CASE o.kind = "throws" ->
            [stores |-> FALSE, status |-> 500,
             body |-> [error |-> "Internal server error"]]
      [] o.kind = "notok" ->
            [stores |-> FALSE, status |-> o.status,
             body |-> [error |-> "CoinGecko error", status |-> 502,
                       details |-> IF o.readable THEN o.body ELSE EmptyText]]
      [] o.kind = "badjson" ->
            [stores |-> FALSE, status |-> 500,
             body |-> [error |-> "Internal server error"]]
      [] o.kind = "json" ->
            [stores |-> TRUE, status |-> 200, body |-> o.body]

\* variant: res.ok is not tested, the body of an error response is parsed
\* and stored like any other
SettleResultNoOkCheck(o) ==
    CASE o.kind = "throws" ->
            [stores |-> FALSE, status |-> 500,
             body |-> [error |-> "Internal server error"]]
      [] o.kind = "badjson" ->
            [stores |-> FALSE, status |-> 500,
             body |-> [error |-> "Internal server error"]]
      [] OTHER ->
            [stores |-> TRUE, status |-> 200, body |-> o.body]

\* what a settled fetch makes of the handler: the status and body of the
\* response, and whether the slot is written (res.ok and res.json() resolved)
SettleResult(o) ==
    CASE o.kind = "throws" ->
            [stores |-> FALSE, status |-> 500,
             body |-> [error |-> "Internal server error"]]
      [] o.kind = "notok" ->
            [stores |-> FALSE, status |-> 502,
             body |-> [error |-> "CoinGecko error", status |-> o.status,
                       details |-> IF o.readable THEN o.body ELSE EmptyText]]
      [] o.kind = "badjson" ->
            [stores |-> FALSE, status |-> 500,
             body |-> [error |-> "Internal server error"]]
      [] OTHER ->
            [stores |-> TRUE, status |-> 200, body |-> o.body]

CacheInit ==
    /\ now = 0
    /\ ticks = 0
    /\ mCache = Null
    /\ cCache = Null
    /\ reqs = [r \in ReqIds |-> NewReq]
    /\ putAt = [markets |-> -1, categories |-> -1]
    /\ parsed = [markets |-> {}, categories |-> {}]
    /\ upstreamCalls = [markets |-> 0, categories |-> 0, chart |-> 0]
    /\ event = NoEvent

\* time passes
Tick ==
    /\ ticks < MaxTicks
    /\ \E d \in Deltas : now' = now + d
    /\ ticks' = ticks + 1
    /\ event' = NoEvent
    /\ UNCHANGED <<mCache, cCache, reqs, putAt, parsed, upstreamCalls>>
    /\ UNCHANGED <<retryVars, clientVars>>

\* requests are numbered in their order of arrival
NextToArrive(r) ==
    /\ reqs[r].pc = "new"
    /\ \A q \in ReqIds : q < r => reqs[q].pc # "new"

\* variant: a hit renews the timestamp of the entry
MarketsArriveTouch(r) ==
    /\ NextToArrive(r)
    /\ \E search \in Queries :
        LET cacheKey == search
        IN  IF MarketsFresh(mCache, cacheKey, now)
            THEN /\ reqs' = [reqs EXCEPT ![r] = DoneReq]
                 /\ event' = Arrived("markets", cacheKey, mCache,
                                     putAt.markets, TRUE,
                                     Response(200, mCache.data))
                 /\ mCache' = [mCache EXCEPT !.timestamp = now]
                 /\ UNCHANGED upstreamCalls
            ELSE /\ reqs' = [reqs EXCEPT ![r] = Fetching("markets", cacheKey)]
                 /\ upstreamCalls' =
                        [upstreamCalls EXCEPT !.markets = @ + 1]
                 /\ event' = Arrived("markets", cacheKey, mCache,
                                     putAt.markets, FALSE, NoResponse)
                 /\ UNCHANGED mCache
    /\ UNCHANGED <<now, ticks, cCache, putAt, parsed>>
    /\ UNCHANGED <<retryVars, clientVars>>

\* markets GET up to the return of a hit or the call of fetch
MarketsArrive(r) ==
    /\ NextToArrive(r)
    /\ \E search \in Queries :
        LET cacheKey == search
        IN  IF MarketsFresh(mCache, cacheKey, now)
            THEN /\ reqs' = [reqs EXCEPT ![r] = DoneReq]
                 /\ event' = Arrived("markets", cacheKey, mCache,
                                     putAt.markets, TRUE,
                                     Response(200, mCache.data))
                 /\ UNCHANGED upstreamCalls
            ELSE /\ reqs' = [reqs EXCEPT ![r] = Fetching("markets", cacheKey)]
                 /\ upstreamCalls' =
                        [upstreamCalls EXCEPT !.markets = @ + 1]
                 /\ event' = Arrived("markets", cacheKey, mCache,
                                     putAt.markets, FALSE, NoResponse)
    /\ UNCHANGED <<now, ticks, mCache, cCache, putAt, parsed>>
    /\ UNCHANGED <<retryVars, clientVars>>

\* variant: the key is shared by the requests in flight, the latest arrival's
\* key is the one stored
MarketsSettleSharedKey(r) ==
    /\ reqs[r].pc = "fetching"
    /\ reqs[r].ep = "markets"
    /\ \E o \in UpstreamOutcomes(r, reqs[r].key) :
        LET res == SettleResult(o)
            inFlight == { q \in ReqIds : /\ reqs[q].pc = "fetching"
                                         /\ reqs[q].ep = "markets" }
            latest == CHOOSE q \in inFlight : \A p \in inFlight : p <= q
        IN  /\ reqs' = [reqs EXCEPT ![r] = DoneReq]
            /\ event' = Settled(reqs[r], o, Response(res.status, res.body))
            /\ parsed' = IF o.kind = "json"
                         THEN [parsed EXCEPT !.markets = @ \cup {o.body}]
                         ELSE parsed
            /\ IF res.stores
               THEN /\ mCache' = [key |-> reqs[latest].key, data |-> res.body,
                                  timestamp |-> reqs[r].now]
                    /\ putAt' = [putAt EXCEPT !.markets = now]
               ELSE UNCHANGED <<mCache, putAt>>
    /\ UNCHANGED <<now, ticks, cCache, upstreamCalls>>
    /\ UNCHANGED <<retryVars, clientVars>>

\* variant: a filled slot is never written again
MarketsSettleKeepFirst(r) ==
    /\ reqs[r].pc = "fetching"
    /\ reqs[r].ep = "markets"
    /\ \E o \in UpstreamOutcomes(r, reqs[r].key) :
        LET res == SettleResult(o)
        IN  /\ reqs' = [reqs EXCEPT ![r] = DoneReq]
            /\ event' = Settled(reqs[r], o, Response(res.status, res.body))
            /\ parsed' = IF o.kind = "json"
                         THEN [parsed EXCEPT !.markets = @ \cup {o.body}]
                         ELSE parsed
            /\ IF res.stores /\ mCache = Null
               THEN /\ mCache' = [key |-> reqs[r].key, data |-> res.body,
                                  timestamp |-> reqs[r].now]
                    /\ putAt' = [putAt EXCEPT !.markets = now]
               ELSE UNCHANGED <<mCache, putAt>>
    /\ UNCHANGED <<now, ticks, cCache, upstreamCalls>>
    /\ UNCHANGED <<retryVars, clientVars>>

\* markets GET from the settling of fetch to the response
MarketsSettle(r) ==
    /\ reqs[r].pc = "fetching"
    /\ reqs[r].ep = "markets"
    /\ \E o \in UpstreamOutcomes(r, reqs[r].key) :
        LET res == SettleResult(o)
        IN  /\ reqs' = [reqs EXCEPT ![r] = DoneReq]
            /\ event' = Settled(reqs[r], o, Response(res.status, res.body))
            /\ parsed' = IF o.kind = "json"
                         THEN [parsed EXCEPT !.markets = @ \cup {o.body}]
                         ELSE parsed
            /\ IF res.stores
               THEN /\ mCache' = [key |-> reqs[r].key, data |-> res.body,
                                  timestamp |-> reqs[r].now]
                    /\ putAt' = [putAt EXCEPT !.markets = now]
               ELSE UNCHANGED <<mCache, putAt>>
    /\ UNCHANGED <<now, ticks, cCache, upstreamCalls>>
    /\ UNCHANGED <<retryVars, clientVars>>

\* variant: a request that finds the entry not fresh evicts it
CategoriesArriveEvict(r) ==
    /\ NextToArrive(r)
    /\ IF CategoriesFresh(cCache, now)
       THEN /\ reqs' = [reqs EXCEPT ![r] = DoneReq]
            /\ event' = Arrived("categories", "", cCache, putAt.categories,
                                TRUE, Response(200, cCache.data))
            /\ UNCHANGED <<upstreamCalls, cCache>>
       ELSE /\ reqs' = [reqs EXCEPT ![r] = Fetching("categories", "")]
            /\ upstreamCalls' = [upstreamCalls EXCEPT !.categories = @ + 1]
            /\ event' = Arrived("categories", "", cCache, putAt.categories,
                                FALSE, NoResponse)
            /\ cCache' = Null
    /\ UNCHANGED <<now, ticks, mCache, putAt, parsed>>
    /\ UNCHANGED <<retryVars, clientVars>>

\* categories GET up to the return of a hit or the call of fetch
CategoriesArrive(r) ==
    /\ NextToArrive(r)
    /\ IF CategoriesFresh(cCache, now)
       THEN /\ reqs' = [reqs EXCEPT ![r] = DoneReq]
            /\ event' = Arrived("categories", "", cCache, putAt.categories,
                                TRUE, Response(200, cCache.data))
            /\ UNCHANGED upstreamCalls
       ELSE /\ reqs' = [reqs EXCEPT ![r] = Fetching("categories", "")]
            /\ upstreamCalls' = [upstreamCalls EXCEPT !.categories = @ + 1]
            /\ event' = Arrived("categories", "", cCache, putAt.categories,
                                FALSE, NoResponse)
    /\ UNCHANGED <<now, ticks, mCache, cCache, putAt, parsed>>
    /\ UNCHANGED <<retryVars, clientVars>>

\* variant: the two routes share one module-level slot
CategoriesSettleSharedSlot(r) ==
    /\ reqs[r].pc = "fetching"
    /\ reqs[r].ep = "categories"
    /\ \E o \in UpstreamOutcomes(r, "categories") :
        LET res == SettleResult(o)
        IN  /\ reqs' = [reqs EXCEPT ![r] = DoneReq]
            /\ event' = Settled(reqs[r], o, Response(res.status, res.body))
            /\ parsed' = IF o.kind = "json"
                         THEN [parsed EXCEPT !.categories = @ \cup {o.body}]
                         ELSE parsed
            /\ IF res.stores
               THEN /\ cCache' = [data |-> res.body,
                                  timestamp |-> reqs[r].now]
                    /\ mCache' = [key |-> "", data |-> res.body,
                                  timestamp |-> reqs[r].now]
                    /\ putAt' = [putAt EXCEPT !.categories = now]
               ELSE UNCHANGED <<mCache, cCache, putAt>>
    /\ UNCHANGED <<now, ticks, upstreamCalls>>
    /\ UNCHANGED <<retryVars, clientVars>>

\* categories GET from the settling of fetch to the response
CategoriesSettle(r) ==
    /\ reqs[r].pc = "fetching"
    /\ reqs[r].ep = "categories"
    /\ \E o \in UpstreamOutcomes(r, "categories") :
        LET res == SettleResult(o)
        IN  /\ reqs' = [reqs EXCEPT ![r] = DoneReq]
            /\ event' = Settled(reqs[r], o, Response(res.status, res.body))
            /\ parsed' = IF o.kind = "json"
                         THEN [parsed EXCEPT !.categories = @ \cup {o.body}]
                         ELSE parsed
            /\ IF res.stores
               THEN /\ cCache' = [data |-> res.body,
                                  timestamp |-> reqs[r].now]
                    /\ putAt' = [putAt EXCEPT !.categories = now]
               ELSE UNCHANGED <<cCache, putAt>>
    /\ UNCHANGED <<now, ticks, mCache, upstreamCalls>>
    /\ UNCHANGED <<retryVars, clientVars>>

\* variant: after a first upstream call the chart route answers by itself
ChartArriveCached(r) ==
    /\ NextToArrive(r)
    /\ \E rawId \in RawIds :
        LET id == ChartId(rawId)
        IN  IF ~IdGiven(id)
            THEN /\ reqs' = [reqs EXCEPT ![r] = DoneReq]
                 /\ event' = Arrived("chart", id, Null, -1, FALSE,
                        Response(400, [error |-> "Missing id parameter"]))
                 /\ UNCHANGED upstreamCalls
            ELSE IF upstreamCalls.chart > 0
            THEN /\ reqs' = [reqs EXCEPT ![r] = DoneReq]
                 /\ event' = Arrived("chart", id, Null, -1, TRUE,
                                     Response(200, Null))
                 /\ UNCHANGED upstreamCalls
            ELSE /\ reqs' = [reqs EXCEPT ![r] = Fetching("chart", id)]
                 /\ upstreamCalls' = [upstreamCalls EXCEPT !.chart = @ + 1]
                 /\ event' = Arrived("chart", id, Null, -1, FALSE,
                                     NoResponse)
    /\ UNCHANGED <<now, ticks, mCache, cCache, putAt, parsed>>
    /\ UNCHANGED <<retryVars, clientVars>>

\* chart GET up to the 400 response or the call of fetch
ChartArrive(r) ==
    /\ NextToArrive(r)
    /\ \E rawId \in RawIds :
        LET id == ChartId(rawId)
        IN  IF ~IdGiven(id)
            THEN /\ reqs' = [reqs EXCEPT ![r] = DoneReq]
                 /\ event' = Arrived("chart", id, Null, -1, FALSE,
                        Response(400, [error |-> "Missing id parameter"]))
                 /\ UNCHANGED upstreamCalls
            ELSE /\ reqs' = [reqs EXCEPT ![r] = Fetching("chart", id)]
                 /\ upstreamCalls' = [upstreamCalls EXCEPT !.chart = @ + 1]
                 /\ event' = Arrived("chart", id, Null, -1, FALSE,
                                     NoResponse)
    /\ UNCHANGED <<now, ticks, mCache, cCache, putAt, parsed>>
    /\ UNCHANGED <<retryVars, clientVars>>

\* chart GET from the settling of fetch to the response
ChartSettle(r) ==
    /\ reqs[r].pc = "fetching"
    /\ reqs[r].ep = "chart"
    /\ \E o \in UpstreamOutcomes(r, reqs[r].key) :
        LET res == SettleResult(o)
        IN  /\ reqs' = [reqs EXCEPT ![r] = DoneReq]
            /\ event' = Settled(reqs[r], o, Response(res.status, res.body))
    /\ UNCHANGED <<now, ticks, mCache, cCache, putAt, parsed, upstreamCalls>>
    /\ UNCHANGED <<retryVars, clientVars>>

CacheNext ==
    \/ Tick
    \/ \E r \in ReqIds : MarketsArrive(r)
    \/ \E r \in ReqIds : MarketsSettle(r)
    \/ \E r \in ReqIds : CategoriesArrive(r)
    \/ \E r \in ReqIds : CategoriesSettle(r)
    \/ \E r \in ReqIds : ChartArrive(r)
    \/ \E r \in ReqIds : ChartSettle(r)

-----------------------------------------------------------------------------
(* The mappers: adaptCoin (lib/coinAdapter.ts), mapMarketToCoin            *)
(* (lib/api.ts) and mapMarketToCoin (hooks/useCoins.ts)                    *)

\* JavaScript values
Undefined == [t |-> "undefined"]
JsNull == [t |-> "null"]
Num(n) == [t |-> "number", n |-> n]
Str(s) == [t |-> "string", s |-> s]

\* what JSON gives for a numeric field: a number, null, or nothing
NumericValues == {Num(5), JsNull, Undefined}
PriceValues == NumericValues \cup {Num(0)}
TextValues == {Str("btc"), JsNull, Undefined}

\* the records of the upstream's markets response; a missing property reads
\* as undefined
MarketRecords ==
    [id : {Str("bitcoin")},
     symbol : TextValues,
     name : {Str("Bitcoin"), Undefined},
     image : {Str("btc.png"), JsNull, Undefined},
     current_price : PriceValues,
     market_cap : NumericValues,
     total_volume : NumericValues,
     market_cap_rank : NumericValues,
     price_change_24h : NumericValues,
     price_change_percentage_24h : NumericValues,
     circulating_supply : NumericValues]

\* a ?? d
Coalesce(a, d) == IF a.t \in {"null", "undefined"} THEN d ELSE a

\* typeof a === "number" ? a : d
NumberOr(a, d) == IF a.t = "number" THEN a ELSE d

\* variant: circulating_supply is passed on as it is
adaptCoinKeepNull(r) ==
    [id |-> r.id,
     rank |-> Coalesce(r.market_cap_rank, Num(0)),
     symbol |-> r.symbol,
     name |-> r.name,
     image |-> Coalesce(r.image, Str("")),
     price |-> Coalesce(r.current_price, Num(0)),
     priceChange24h |-> Coalesce(r.price_change_24h, Num(0)),
     priceChangePct24h |-> Coalesce(r.price_change_percentage_24h, Num(0)),
     marketCap |-> Coalesce(r.market_cap, Num(0)),
     volume24h |-> Coalesce(r.total_volume, Num(0)),
     circulatingSupply |-> r.circulating_supply]

\* lib/coinAdapter.ts
adaptCoin(r) ==
    [id |-> r.id,
     rank |-> Coalesce(r.market_cap_rank, Num(0)),
     symbol |-> r.symbol,
     name |-> r.name,
     image |-> Coalesce(r.image, Str("")),
     price |-> Coalesce(r.current_price, Num(0)),
     priceChange24h |-> Coalesce(r.price_change_24h, Num(0)),
     priceChangePct24h |-> Coalesce(r.price_change_percentage_24h, Num(0)),
     marketCap |-> Coalesce(r.market_cap, Num(0)),
     volume24h |-> Coalesce(r.total_volume, Num(0)),
     circulatingSupply |-> Coalesce(r.circulating_supply, Undefined)]

\* lib/api.ts
mapMarketToCoin(m) ==
    [id |-> m.id,
     rank |-> NumberOr(m.market_cap_rank, Num(0)),
     symbol |-> Coalesce(m.symbol, Str("")),
     name |-> Coalesce(m.name, Str("")),
     image |-> Coalesce(m.image, Str("")),
     price |-> NumberOr(m.current_price, Num(0)),
     priceChange24h |-> NumberOr(m.price_change_24h, Num(0)),
     priceChangePct24h |-> NumberOr(m.price_change_percentage_24h, Num(0)),
     marketCap |-> NumberOr(m.market_cap, Num(0)),
     volume24h |-> NumberOr(m.total_volume, Num(0)),
     circulatingSupply |-> NumberOr(m.circulating_supply, Undefined)]

\* hooks/useCoins.ts
useCoins_mapMarketToCoin(m) ==
    [id |-> m.id,
     rank |-> NumberOr(m.market_cap_rank, Num(0)),
     symbol |-> Coalesce(m.symbol, Str("")),
     name |-> Coalesce(m.name, Str("")),
     image |-> Coalesce(m.image, Str("")),
     price |-> NumberOr(m.current_price, Num(0)),
     priceChange24h |-> NumberOr(m.price_change_24h, Num(0)),
     priceChangePct24h |-> NumberOr(m.price_change_percentage_24h, Num(0)),
     marketCap |-> NumberOr(m.market_cap, Num(0)),
     volume24h |-> NumberOr(m.total_volume, Num(0)),
     circulatingSupply |-> NumberOr(m.circulating_supply, Undefined)]

NotMapped == [done |-> FALSE]

\* no record is being mapped
MapperIdle ==
    /\ rawCoin = Undefined
    /\ mapped = NotMapped

\* some record of the upstream's response is about to be mapped
MapperInput ==
    /\ rawCoin \in MarketRecords
    /\ mapped = NotMapped

\* the record goes through each of the three mappers
Map ==
    /\ ~mapped.done
    /\ mapped' = [done |-> TRUE, adapt |-> adaptCoin(rawCoin),
                  api |-> mapMarketToCoin(rawCoin),
                  hook |-> useCoins_mapMarketToCoin(rawCoin)]
    /\ UNCHANGED <<rawCoin, retryVars, cacheVars, hlVars, hookVars, pageVars,
                   tabsVars>>

-----------------------------------------------------------------------------
(* getAllHighlightsPayload (lib/api.ts)                                    *)

\* the members of the payload, in the order of the Promise.all array
Groups == <<"trending", "gainers", "losers", "newCoins", "unlocks",
            "mostViewed">>

GroupNames == { Groups[i] : i \in 1..Len(Groups) }

Pending == [kind |-> "pending"]
Rejected == [kind |-> "rejected"]
Fulfilled(list) == [kind |-> "fulfilled", value |-> list]

\* how the sub-fetch of group g can settle: with an empty list, with coins
\* of its own, or with an error
SubOutcomes(g) == {Fulfilled(<<>>), Fulfilled(<<g>>), Rejected}

\* variant: the sub-fetch is handed to Promise.all as it is
CaughtNot(p) == p

\* p.catch(() => [])
Caught(p) == IF p.kind = "rejected" THEN Fulfilled(<<>>) ELSE p

NoPayload == [none |-> TRUE]

\* no call of getAllHighlightsPayload is in progress
HlIdle ==
    /\ hlPc = "idle"
    /\ subs = [g \in GroupNames |-> Pending]
    /\ hlPayload = NoPayload

\* the call starts its six sub-fetches and awaits Promise.all
HlCall ==
    /\ hlPc = "idle"
    /\ hlPc' = "waiting"
    /\ UNCHANGED <<subs, hlPayload>>
    /\ UNCHANGED <<retryVars, cacheVars, mapVars, hookVars, pageVars, tabsVars>>

\* one sub-fetch settles; Promise.all rejects with the first rejected
\* member and resolves when the last member is fulfilled
SubSettle(g) ==
    /\ hlPc = "waiting"
    /\ subs[g] = Pending
    /\ \E o \in SubOutcomes(g) :
        LET after == [subs EXCEPT ![g] = o]
            members == [h \in GroupNames |-> Caught(after[h])]
        IN  /\ subs' = after
            /\ IF members[g].kind = "rejected"
               THEN /\ hlPc' = "rejected"
                    /\ UNCHANGED hlPayload
               ELSE IF \A h \in GroupNames : members[h].kind = "fulfilled"
               THEN /\ hlPc' = "resolved"
                    /\ hlPayload' = [h \in GroupNames |-> members[h].value]
               ELSE UNCHANGED <<hlPc, hlPayload>>
    /\ UNCHANGED <<retryVars, cacheVars, mapVars, hookVars, pageVars, tabsVars>>

HlNext ==
    \/ HlCall
    \/ \E g \in GroupNames : SubSettle(g)

-----------------------------------------------------------------------------
(* The useCoins hook (hooks/useCoins.ts)                                   *)

LoadIds == 1..MaxLoads

NoError == "null"
NotStarted == [pc |-> "new", aborted |-> FALSE]
NoHookEvent == [type |-> "none"]

\* the load is awaiting fetch or res.json()
InFlight_(ld) == ld.pc \in {"fetching", "readOk", "readErr"}

\* the number of the next call of load
NextLoad == Cardinality({ l \in LoadIds : loads[l].pc # "new" }) + 1

\* controllerRef.current.abort(), when there is a controller
Abort(ls, c) == IF c = 0 THEN ls ELSE [ls EXCEPT ![c].aborted = TRUE]

\* useState / useRef initial values, before the first effect
HookInit ==
    /\ coins = <<>>
    /\ loading = FALSE
    /\ error = NoError
    /\ enabled = TRUE
    /\ mountedRef = TRUE
    /\ controllerRef = 0
    /\ loads = [l \in LoadIds |-> NotStarted]
    /\ hookEvent = NoHookEvent

\* load() up to await fetch: abort the previous controller, install a new
\* one, setLoading(true), setError(null)
StartLoad(l) ==
    /\ loads' = [Abort(loads, controllerRef) EXCEPT
                     ![l] = [pc |-> "fetching", aborted |-> FALSE]]
    /\ controllerRef' = l
    /\ loading' = TRUE
    /\ error' = NoError
    /\ hookEvent' = [type |-> "start", load |-> l]
    /\ UNCHANGED coins

\* the effect runs (first mount, or a parameter changed): the cleanup of
\* the previous run, then mountedRef = true and load() when enabled
EffectRun ==
    /\ mountedRef
    /\ NextLoad \in LoadIds
    /\ \E en \in BOOLEAN :
        /\ enabled' = en
        /\ IF en
           THEN StartLoad(NextLoad)
           ELSE /\ loads' = Abort(loads, controllerRef)
                /\ hookEvent' = [type |-> "disable"]
                /\ UNCHANGED <<coins, loading, error, controllerRef>>
    /\ UNCHANGED mountedRef
    /\ UNCHANGED <<retryVars, cacheVars, mapVars, hlVars, pageVars, tabsVars>>

\* refetch() while enabled
Refetch ==
    /\ mountedRef
    /\ enabled
    /\ NextLoad \in LoadIds
    /\ StartLoad(NextLoad)
    /\ UNCHANGED <<enabled, mountedRef>>
    /\ UNCHANGED <<retryVars, cacheVars, mapVars, hlVars, pageVars, tabsVars>>

\* the cleanup of the effect at unmount
Unmount ==
    /\ mountedRef
    /\ mountedRef' = FALSE
    /\ loads' = Abort(loads, controllerRef)
    /\ hookEvent' = [type |-> "unmount"]
    /\ UNCHANGED <<coins, loading, error, enabled, controllerRef>>
    /\ UNCHANGED <<retryVars, cacheVars, mapVars, hlVars, pageVars, tabsVars>>

\* the end of load l: the success path (kind "coins"), the catch with an
\* error that is not an AbortError (kind "error") or with an AbortError
\* (kind "abort"), then the finally block
EndLoad(l, kind, val) ==
    /\ loads' = [loads EXCEPT ![l].pc = "done"]
    /\ hookEvent' = [type |-> "end", load |-> l, latest |-> controllerRef,
                     kind |-> kind, mounted |-> mountedRef]
    /\ coins' = IF mountedRef /\ kind = "coins" THEN val ELSE coins
    /\ error' = IF mountedRef /\ kind = "coins" THEN NoError
                ELSE IF mountedRef /\ kind = "error" THEN val
                ELSE error
    /\ loading' = IF mountedRef THEN FALSE ELSE loading
    /\ UNCHANGED <<enabled, mountedRef, controllerRef>>

\* await fetch(url, {signal}) settles
FetchSettle(l) ==
    /\ loads[l].pc = "fetching"
    /\ IF loads[l].aborted
       THEN EndLoad(l, "abort", NoError)
       ELSE \E o \in {"ok", "notok", "neterr"} :
            IF o = "neterr"
            THEN EndLoad(l, "error", "Failed to fetch")
            ELSE /\ loads' = [loads EXCEPT ![l].pc =
                                 IF o = "ok" THEN "readOk" ELSE "readErr"]
                 /\ hookEvent' = [type |-> "response", load |-> l]
                 /\ UNCHANGED <<coins, loading, error, enabled, mountedRef,
                                controllerRef>>
    /\ UNCHANGED <<retryVars, cacheVars, mapVars, hlVars, pageVars, tabsVars>>

\* await res.json() settles; an abort errors the body stream, which the
\* inner try of the !res.ok branch swallows before throw new Error(errText)
BodySettle(l) ==
    /\ loads[l].pc \in {"readOk", "readErr"}
    /\ IF loads[l].pc = "readOk"
       THEN IF loads[l].aborted
            THEN EndLoad(l, "abort", NoError)
            ELSE \/ EndLoad(l, "coins", <<l>>)
                 \/ EndLoad(l, "error", "Unexpected token")
       ELSE IF loads[l].aborted
            THEN EndLoad(l, "error", "Request failed: 502")
            ELSE \/ EndLoad(l, "error", "CoinGecko error")
                 \/ EndLoad(l, "error", "Request failed: 502")
    /\ UNCHANGED <<retryVars, cacheVars, mapVars, hlVars, pageVars, tabsVars>>

HookNext ==
    \/ EffectRun
    \/ Refetch
    \/ Unmount
    \/ \E l \in LoadIds : FetchSettle(l)
    \/ \E l \in LoadIds : BodySettle(l)

-----------------------------------------------------------------------------
(* The dashboard page (app/page.tsx): the effect that loads the highlights *)

TabKeys == {"All", "Highlights", "Categories", "Trending", "Gainers",
            "Losers"}

\* one run of the effect more than there are tab changes: the mount
PageLoadIds == 1..(MaxTabChanges + 1)

NoPageEvent == [type |-> "none"]

\* the calls of getAllHighlightsPayload made so far
StartedLoads == { l \in PageLoadIds : hLoads[l].pc # "new" }

\* variant: the cached payload is not looked at
AlreadyCachedNever(p) == FALSE

\* if (payloadRef.current) return
AlreadyCached(p) == p # Null

\* useState / useRef initial values, before the first effect
PageInit ==
    /\ activeTab = "All"
    /\ payloadRef = Null
    /\ loadingHighlights = FALSE
    /\ highlightsError = NoError
    /\ hLoads = [l \in PageLoadIds |-> [pc |-> "new", cancelled |-> FALSE]]
    /\ tabChanges = 0
    /\ pageEvent = NoPageEvent

\* the body of the effect for tab t, after the cleanup of the previous run
\* has set its `cancelled`: loadHighlights up to the await, when t is All or
\* Highlights
RunEffect(t, cancelledLoads) ==
    IF t \in {"Highlights", "All"} /\ ~AlreadyCached(payloadRef)
    THEN LET l == Cardinality(StartedLoads) + 1
         IN  /\ hLoads' = [cancelledLoads EXCEPT
                              ![l] = [pc |-> "waiting", cancelled |-> FALSE]]
             /\ highlightsError' = NoError
             /\ loadingHighlights' = TRUE
             /\ pageEvent' = [type |-> "start", load |-> l, tab |-> t,
                              cached |-> payloadRef]
    ELSE /\ hLoads' = cancelledLoads
         /\ pageEvent' = [type |-> "norun", tab |-> t]
         /\ UNCHANGED <<highlightsError, loadingHighlights>>

\* the first run of the effect, after the first render
PageMount ==
    /\ pageEvent = NoPageEvent
    /\ RunEffect(activeTab, hLoads)
    /\ UNCHANGED <<activeTab, payloadRef, tabChanges>>
    /\ UNCHANGED <<retryVars, cacheVars, mapVars, hlVars, hookVars, tabsVars>>

\* setActiveTab(t) with another tab: the cleanup of the previous run
\* (cancelled = true), then the effect for t
TabChange(t) ==
    /\ pageEvent # NoPageEvent
    /\ tabChanges < MaxTabChanges
    /\ t # activeTab
    /\ activeTab' = t
    /\ tabChanges' = tabChanges + 1
    /\ RunEffect(t, [l \in PageLoadIds |->
                        IF hLoads[l].pc = "new" THEN hLoads[l]
                        ELSE [hLoads[l] EXCEPT !.cancelled = TRUE]])
    /\ UNCHANGED payloadRef
    /\ UNCHANGED <<retryVars, cacheVars, mapVars, hlVars, hookVars, tabsVars>>

\* await getAllHighlightsPayload() resolves (it never rejects); the rest of
\* try and the finally block
LoadSettle(l) ==
    /\ hLoads[l].pc = "waiting"
    /\ hLoads' = [hLoads EXCEPT ![l].pc = "done"]
    /\ pageEvent' = [type |-> "settle", load |-> l,
                     cancelled |-> hLoads[l].cancelled]
    /\ IF hLoads[l].cancelled
       THEN UNCHANGED <<payloadRef, loadingHighlights>>
       ELSE /\ payloadRef' = [from |-> l]
            /\ loadingHighlights' = FALSE
    /\ UNCHANGED <<activeTab, highlightsError, tabChanges>>
    /\ UNCHANGED <<retryVars, cacheVars, mapVars, hlVars, hookVars, tabsVars>>

PageNext ==
    \/ PageMount
    \/ \E t \in TabKeys : TabChange(t)
    \/ \E l \in PageLoadIds : LoadSettle(l)

-----------------------------------------------------------------------------
(* FiltersTabs (components/FiltersTabs.tsx), with the tabs of the page     *)

\* prop tabs (the keys), as the page passes them
Tabs == <<"All", "Highlights", "Categories", "Trending", "Gainers",
          "Losers">>

\* the indexes of the tab buttons, from 0 as in the code
TabIdx == 0..(Len(Tabs) - 1)

\* tabs[i].key
KeyAt(i) == Tabs[i + 1]

Keys == {"Enter", " ", "ArrowRight", "ArrowLeft", "Home", "End", "Tab", "a"}

NoTabsEvent == [type |-> "none"]

\* variant: no wrap-around at the last tab
NextIndexClamped(idx, n) == IF idx + 1 < n THEN idx + 1 ELSE idx

\* (idx + 1) % tabs.length
NextIndex(idx, n) == (idx + 1) % n

\* (idx - 1 + tabs.length) % tabs.length
PrevIndex(idx, n) == (idx - 1 + n) % n

\* {isActive && t.content}: the panels that render their content
RenderedPanels == { i \in TabIdx : KeyAt(i) = active }

TabsInit ==
    /\ active = "All"
    /\ focusIdx = -1
    /\ onChangeCalls = 0
    /\ inputs = 0
    /\ tabsEvent = NoTabsEvent

\* what a user input found
Input(type, key, idx) ==
    [type |-> type, key |-> key, idx |-> idx, focusBefore |-> focusIdx,
     activeBefore |-> active, callsBefore |-> onChangeCalls]

\* the user tabs into the tab list: the button with tabIndex 0 gets the focus
FocusIn ==
    /\ inputs < MaxInputs
    /\ focusIdx = -1
    /\ \E i \in TabIdx :
        /\ KeyAt(i) = active
        /\ focusIdx' = i
        /\ tabsEvent' = Input("focus", "Tab", i)
    /\ inputs' = inputs + 1
    /\ UNCHANGED <<active, onChangeCalls>>
    /\ UNCHANGED <<retryVars, cacheVars, mapVars, hlVars, hookVars, pageVars>>

\* onClick of button i: onChange(t.key); the button takes the focus in the
\* browsers that focus a clicked button
Click(i) ==
    /\ inputs < MaxInputs
    /\ active' = KeyAt(i)
    /\ onChangeCalls' = onChangeCalls + 1
    /\ focusIdx' \in {i, focusIdx}
    /\ tabsEvent' = Input("click", "", i)
    /\ inputs' = inputs + 1
    /\ UNCHANGED <<retryVars, cacheVars, mapVars, hlVars, hookVars, pageVars>>

\* onKeyDown of the focused button: handleKey(e, idx, tab)
KeyDown(key) ==
    /\ inputs < MaxInputs
    /\ focusIdx # -1
    /\ LET idx == focusIdx
           n == Len(Tabs)
       IN  /\ tabsEvent' = Input("key", key, idx)
           /\ IF key = "Enter" \/ key = " "
              THEN /\ active' = KeyAt(idx)
                   /\ onChangeCalls' = onChangeCalls + 1
                   /\ UNCHANGED focusIdx
              ELSE /\ focusIdx' =
                        CASE key = "ArrowRight" -> NextIndex(idx, n)
                          [] key = "ArrowLeft" -> PrevIndex(idx, n)
                          [] key = "Home" -> 0
                          [] key = "End" -> n - 1
                          [] OTHER -> focusIdx
                   /\ UNCHANGED <<active, onChangeCalls>>
    /\ inputs' = inputs + 1
    /\ UNCHANGED <<retryVars, cacheVars, mapVars, hlVars, hookVars, pageVars>>

TabsNext ==
    \/ FocusIn
    \/ \E i \in TabIdx : Click(i)
    \/ \E key \in Keys : KeyDown(key)

-----------------------------------------------------------------------------
Init ==
    /\ RetryInit /\ CacheInit /\ MapperIdle /\ HlIdle /\ HookInit /\ PageInit
    /\ TabsInit

SpecRetry == Init /\ [][RetryNext]_vars

SpecCache == Init /\ [][CacheNext]_vars

\* each GET settles (axios timeout), each sleep ends (setTimeout)
FairRetry == SpecRetry /\ WF_vars(RetryNext)

\* the markets route alone, with one request more
MarketsReqIds == 1..(MaxRequests + 1)

MarketsOnlyInit ==
    /\ RetryInit
    /\ MapperIdle
    /\ HlIdle
    /\ HookInit
    /\ PageInit
    /\ TabsInit
    /\ now = 0
    /\ ticks = 0
    /\ mCache = Null
    /\ cCache = Null
    /\ reqs = [r \in MarketsReqIds |-> NewReq]
    /\ putAt = [markets |-> -1, categories |-> -1]
    /\ parsed = [markets |-> {}, categories |-> {}]
    /\ upstreamCalls = [markets |-> 0, categories |-> 0, chart |-> 0]
    /\ event = NoEvent

\* a short time passes, well within the TTL
ShortTick ==
    /\ ticks < MaxTicks
    /\ now' = now + 10
    /\ ticks' = ticks + 1
    /\ event' = NoEvent
    /\ UNCHANGED <<mCache, cCache, reqs, putAt, parsed, upstreamCalls>>
    /\ UNCHANGED <<retryVars, clientVars>>

MarketsOnlyNext ==
    \/ ShortTick
    \/ \E r \in MarketsReqIds : MarketsArrive(r)
    \/ \E r \in MarketsReqIds : MarketsSettle(r)

SpecMarkets == MarketsOnlyInit /\ [][MarketsOnlyNext]_vars

MapperNext == Map

MapperInit ==
    /\ RetryInit /\ CacheInit /\ MapperInput /\ HlIdle /\ HookInit /\ PageInit
    /\ TabsInit

SpecTabs == Init /\ [][TabsNext]_vars

SpecPage == Init /\ [][PageNext]_vars

SpecHook == Init /\ [][HookNext]_vars

SpecHighlights == Init /\ [][HlNext]_vars

\* each sub-fetch settles (axios timeout)
FairHighlights == SpecHighlights /\ WF_vars(HlNext)

SpecMappers == MapperInit /\ [][MapperNext]_vars

-----------------------------------------------------------------------------
(* Properties of axiosGetWithRetry *)

Ended == rpc \in {"returned", "thrown"}

\* a status of the retryable class: 429 or 500..599
RetryableClass(s) == s = 429 \/ (s >= 500 /\ s <= 599)

AllRetryableSoFar == \A i \in 1..Len(statuses) : RetryableClass(statuses[i])

\* C1: when every upstream response of a call with maxRetries = N is a
\* retryable failure, the call ends by throwing after exactly N+1 GETs, and
\* the error thrown is the one of the last attempt.
C1_ExhaustThenLastError ==
    (Ended /\ gets > 0 /\ AllRetryableSoFar) =>
        /\ rpc = "thrown"
        /\ gets = maxRetries + 1
        /\ Len(statuses) = maxRetries + 1
        /\ thrown.seq = gets
        /\ thrown.status = statuses[gets]

C1_Witness ==
    /\ rpc = "thrown"
    /\ maxRetries = 3
    /\ statuses = <<429, 500, 599, 429>>
    /\ thrown.seq = 4

\* the statuses the claim C2 lists as retried
ListedStatuses == {429, 500, 502, 503}

FirstIsHttpFailure == gets >= 1 /\ statuses[1] # 200 /\ statuses[1] # NoStatus

FailedAtOnce ==
    /\ rpc = "thrown"
    /\ gets = 1
    /\ waits = <<>>
    /\ thrown.seq = 1
    /\ thrown.status = statuses[1]

\* C2 as stated: every failure status outside {429, 500, 502, 503} ends the
\* call on the first attempt, with one GET, no wait, and that status raised.
C2_Original ==
    (FirstIsHttpFailure /\ statuses[1] \notin ListedStatuses) => FailedAtOnce

\* C2 amended: every failure status that is neither 429 nor in 500..599 ends
\* the call on the first attempt, with one GET, no wait, and that status
\* raised.
C2_NonRetryableFailsAtOnce ==
    (FirstIsHttpFailure /\ ~RetryableClass(statuses[1])) => FailedAtOnce

C2_Witness ==
    /\ rpc = "thrown"
    /\ statuses = <<404>>
    /\ thrown.status = 404
    /\ waits = <<>>

\* C3: a failure without an HTTP status, at whatever attempt, ends the call
\* at once with that error and with no wait after it.
C3_TransportFailureNotRetried ==
    (gets >= 1 /\ statuses[gets] = NoStatus) =>
        /\ rpc = "thrown"
        /\ thrown = lastErr
        /\ thrown.seq = gets
        /\ thrown.status = NoStatus
        /\ Len(waits) = gets - 1

C3_Witness ==
    /\ rpc = "thrown"
    /\ gets = 3
    /\ statuses[3] = NoStatus
    /\ thrown.kind = "axios-noresponse"
    /\ Len(waits) = 2

\* the Retry-After header of a response, in thousandths of a second, or 0
\* when there is none or it is not a positive number
PositiveHint(err) ==
    LET raw == RaRaw(err)
    IN  IF raw = Absent THEN 0
        ELSE IF NumberMilli(raw).nan THEN 0
        ELSE IF NumberMilli(raw).milli > 0 THEN NumberMilli(raw).milli
        ELSE 0

\* C4: the wait after failed retryable attempt n is 500 * 2^n without a
\* positive numeric Retry-After, and max(500 * 2^n, 1000 * r) with Retry-After
\* r > 0; the header never shortens the wait.
C4_WaitIsBackoffOrHint ==
    (rpc = "sleep") =>
        /\ waits[Len(waits)] = wait
        /\ Len(waits) = attempt + 1
        /\ wait >= 500 * (2 ^ attempt)
        /\ IF PositiveHint(lastErr) = 0
           THEN wait = 500 * (2 ^ attempt)
           ELSE /\ wait >= PositiveHint(lastErr)
                /\ wait \in {500 * (2 ^ attempt), PositiveHint(lastErr)}

\* a wait lengthened by the header, and one where the backoff is the larger
C4_Witness ==
    /\ rpc = "sleep"
    /\ attempt = 3
    /\ waits[1] = 3000
    /\ lastErr.lo = "3"
    /\ wait = 4000

\* C5: k retryable failures then a success: k+1 GETs, k waits of 500, 1000,
\* ..., 500 * 2^(k-1) when no response carried Retry-After, and the body is
\* returned.
C5_SuccessAfterRetries ==
    (rpc = "returned") =>
        /\ gets = Len(statuses)
        /\ statuses[gets] = 200
        /\ \A i \in 1..(gets - 1) : RetryableClass(statuses[i])
        /\ gets - 1 <= maxRetries
        /\ Len(waits) = gets - 1
        /\ ~hinted => \A i \in 1..Len(waits) : waits[i] = 500 * (2 ^ (i - 1))
        /\ result \in Bodies

C5_Witness ==
    /\ rpc = "returned"
    /\ statuses = <<429, 429, 200>>
    /\ waits = <<500, 1000>>
    /\ gets = 3
    /\ result = "bodyA"

\* C6: every call ends, by returning or by throwing, after at most
\* maxRetries + 1 GETs.
C6_Terminates ==
    /\ [](gets <= maxRetries + 1)
    /\ (rpc # "idle") ~> Ended

C6_Witness ==
    /\ rpc = "thrown"
    /\ gets = maxRetries + 1
    /\ maxRetries = MaxRetriesBound

-----------------------------------------------------------------------------
(* Properties of the cache of the proxy routes *)

ArrivedAtFullSlot == event.type = "arrive" /\ event.seen # Null

\* the key of the request equals the key of the entry (categories: no key)
KeyMatches == event.ep = "categories" \/ event.seen.key = event.key

\* the request was answered from the slot, without a call to the upstream
ServedFromSlot ==
    /\ event.hit
    /\ event.resp = Response(200, event.seen.data)
    /\ upstreamCalls[event.ep] = event.callsBefore

\* the request was not answered from the slot and called the upstream
WentUpstream ==
    /\ ~event.hit
    /\ event.resp = NoResponse
    /\ upstreamCalls[event.ep] = event.callsBefore + 1
    /\ \E r \in ReqIds : /\ reqs[r].pc = "fetching"
                         /\ reqs[r].ep = event.ep
                         /\ reqs[r].key = event.key
                         /\ reqs[r].now = event.at

\* C7 as stated: a request with the entry's key that arrives less than
\* 30,000 ms after the entry was put into the slot is answered from the
\* slot, without an upstream call.
C7_HitWithinTtlOfPut ==
    (ArrivedAtFullSlot /\ KeyMatches
        /\ event.at - event.seenPutAt < CACHE_TTL) => ServedFromSlot

\* C8: a request that arrives 30,000 ms or more after the entry was put is
\* a miss, whatever its key: it is not answered from the slot and the
\* upstream is called.
C8_MissFromTtlOn ==
    (ArrivedAtFullSlot /\ event.at - event.seenPutAt >= CACHE_TTL)
        => WentUpstream

\* the boundary: exactly 30,000 ms after the put, with the entry's key
C8_Witness ==
    /\ ArrivedAtFullSlot
    /\ KeyMatches
    /\ event.at - event.seenPutAt = CACHE_TTL
    /\ ~event.hit
    /\ upstreamCalls[event.ep] = 2

\* C9: a markets request whose query string differs from the entry's key
\* is a miss even within the TTL, and no markets response carries the
\* payload of another query string.
C9_OtherKeyMisses ==
    /\ (ArrivedAtFullSlot /\ event.ep = "markets"
            /\ event.seen.key # event.key) => WentUpstream
    /\ (event.type \in {"arrive", "settle"} /\ event.ep = "markets"
            /\ event.resp.status = 200) => event.resp.body.q = event.key

C9_Witness ==
    /\ ArrivedAtFullSlot
    /\ event.ep = "markets"
    /\ event.seen.key # event.key
    /\ event.at - event.seen.timestamp < CACHE_TTL
    /\ event.at - event.seenPutAt < CACHE_TTL
    /\ ~event.hit

SlotsHoldParsedPayloads ==
    /\ mCache # Null => mCache.data \in parsed.markets
    /\ cCache # Null => cCache.data \in parsed.categories

\* a step in which the fetch of some request settles without a parsed body
FailedSettle ==
    /\ reqs' # reqs
    /\ event'.type = "settle"
    /\ event'.outcome \in {"notok", "throws", "badjson"}

\* C10: a slot is empty or holds a payload parsed from an upstream 2xx
\* response, and a request whose fetch is answered non-OK, throws or has an
\* unparsable body leaves key, payload and timestamp of the slots as they
\* were.
C10_SlotOnlyFromParsedOk ==
    /\ [](SlotsHoldParsedPayloads)
    /\ [][FailedSettle => UNCHANGED <<mCache, cCache>>]_vars

\* an entry that outlived a failed fetch
C10_Witness ==
    /\ event.type = "settle"
    /\ event.outcome = "notok"
    /\ event.ep = "markets"
    /\ mCache # Null
    /\ mCache.data \in parsed.markets

\* the latest attempt was answered with an HTTP failure status outside the
\* retryable class
LastIsNonRetryableHttp ==
    /\ gets >= 1
    /\ statuses[gets] \notin {200, NoStatus}
    /\ ~RetryableClass(statuses[gets])

\* C20: an HTTP failure that is not retryable ends the call at whatever
\* attempt it occurs: that error is thrown at once, no wait follows it and no
\* further GET is issued, even when retries remain.
C20_NonRetryableEndsAnyAttempt ==
    LastIsNonRetryableHttp =>
        /\ rpc = "thrown"
        /\ thrown = lastErr
        /\ thrown.seq = gets
        /\ thrown.status = statuses[gets]
        /\ Len(statuses) = gets
        /\ Len(waits) = gets - 1
        /\ \A i \in 1..(gets - 1) : RetryableClass(statuses[i])

\* 429 then 404 with two retries left
C20_Witness ==
    /\ rpc = "thrown"
    /\ maxRetries = 3
    /\ statuses = <<429, 404>>
    /\ thrown.status = 404
    /\ gets = 2
    /\ Len(waits) = 1

\* a cached route answers with an upstream failure of the retryable class
ReportsRetryableFailure ==
    /\ event.type = "settle"
    /\ event.ep \in {"markets", "categories"}
    /\ event.outcome = "notok"
    /\ RetryableClass(event.ustatus)

\* C11: on a miss the markets and categories routes go upstream through the
\* retrying client, so a retryable upstream failure (429 or 5xx) is reported
\* only after the request has tried the upstream more than once.
C11_RoutesRetryUpstream ==
    ReportsRetryableFailure => event.fetches >= 2

\* a markets request arrives 10 ms after the arrival of the request whose
\* successful fetch filled the slot, with that request's query string
SecondAfterStoredFirst ==
    /\ ArrivedAtFullSlot
    /\ event.ep = "markets"
    /\ event.seen.key = event.key
    /\ event.at - event.seen.timestamp = 10

\* the fetch of the first of two markets requests has just succeeded, while
\* the second, which arrived 10 ms after the first with the same query
\* string, has called the upstream too
SecondWhileFirstInFlight ==
    /\ event.type = "settle"
    /\ event.ep = "markets"
    /\ event.outcome = "json"
    /\ upstreamCalls.markets = 2
    /\ \E r \in ReqIds : /\ reqs[r].pc = "fetching"
                         /\ reqs[r].ep = "markets"
                         /\ reqs[r].key = event.key
                         /\ reqs[r].now = mCache.timestamp + 10

\* C12 amended: of two markets requests with identical query strings that
\* arrive 10 ms apart, the first's fetch having succeeded and stored its
\* entry before the second arrives, the second is served from the slot with
\* no upstream call of its own.
C12_SecondServedFromSlot ==
    SecondAfterStoredFirst => ServedFromSlot

\* C12 as stated: whenever two markets requests with identical query strings
\* arrive 10 ms apart and the first's fetch succeeds, the second is served
\* from the slot and one upstream call is made in total.
C12_Original ==
    /\ C12_SecondServedFromSlot
    /\ ~SecondWhileFirstInFlight

C12_Witness ==
    /\ SecondAfterStoredFirst
    /\ event.hit
    /\ event.resp = Response(200, [q |-> event.key, v |-> 1])
    /\ upstreamCalls.markets = 1

\* a chart request arrives whose id parameter is missing or empty
ChartArrivedWithoutId ==
    /\ event.type = "arrive"
    /\ event.ep = "chart"
    /\ event.key \in {Absent, ""}

\* C13: a chart request with a missing or empty id is answered with status
\* 400 and an error body, and no upstream request is made for it.
C13_MissingIdIs400 ==
    ChartArrivedWithoutId =>
        /\ event.resp.status = 400
        /\ event.resp.body = [error |-> "Missing id parameter"]
        /\ upstreamCalls.chart = event.callsBefore
        /\ \A r \in ReqIds :
               reqs[r].pc = "fetching" => reqs[r].key \notin {Absent, ""}
                                             \/ reqs[r].ep # "chart"

\* the empty id, after an earlier chart request that went upstream
C13_Witness ==
    /\ ChartArrivedWithoutId
    /\ event.key = ""
    /\ event.resp.status = 400
    /\ event.callsBefore = 1
    /\ upstreamCalls.chart = 1

\* C14: on the markets, categories and chart routes every settled fetch ends
\* in a JSON response: a non-OK upstream response gives 502 with the body
\* {error, status, details} whose status is the upstream's, and an exception
\* while fetching or parsing gives 500 with an error body.
C14_FailuresAreJsonErrors ==
    event.type = "settle" =>
        /\ event.ep \in {"markets", "categories", "chart"}
        /\ event.resp.status \in {200, 500, 502}
        /\ event.outcome = "notok" =>
               event.resp = Response(502, [error |-> "CoinGecko error",
                                           status |-> event.ustatus,
                                           details |-> event.utext])
        /\ event.outcome \in {"throws", "badjson"} =>
               /\ event.resp.status = 500
               /\ event.resp.body.error = "Internal server error"
        /\ event.outcome = "json" => event.resp.status = 200

\* the chart route reports an upstream 503 whose body could not be read
C14_Witness ==
    /\ event.type = "settle"
    /\ event.ep = "chart"
    /\ event.outcome = "notok"
    /\ event.ustatus = 503
    /\ event.resp.status = 502
    /\ event.resp.body.status = 503
    /\ event.resp.body.details = EmptyText

\* a chart request arrives with a non-empty id
ChartArrivedWithId ==
    /\ event.type = "arrive"
    /\ event.ep = "chart"
    /\ event.key \notin {Absent, ""}

\* C15: the chart route keeps no state; every request with a non-empty id
\* makes one upstream call of its own, whatever requests came before.
C15_ChartAlwaysGoesUpstream ==
    /\ ChartArrivedWithId => WentUpstream
    /\ (event.type = "settle" /\ event.ep = "chart") => event.fetches = 1

\* a second request for the same coin, after the first got its chart
C15_Witness ==
    /\ ChartArrivedWithId
    /\ event.key = "bitcoin"
    /\ event.callsBefore = 1
    /\ upstreamCalls.chart = 2
    /\ reqs[1] = DoneReq

\* the requests of a route whose fetch is pending
InFlight(ep) ==
    { r \in ReqIds : reqs[r].pc = "fetching" /\ reqs[r].ep = ep }

\* a fetch of a cached route has just succeeded
StoredNow ==
    /\ event.type = "settle"
    /\ event.ep \in {"markets", "categories"}
    /\ event.outcome = "json"

\* C16: requests that observe a miss together each call the upstream and
\* each write the slot on success; the slot then holds the key and payload
\* of the request that wrote last, and never the key of one request with
\* the payload of another.
C16_LastWriterWinsUnmixed ==
    /\ Cardinality(InFlight("markets")) <= upstreamCalls.markets
    /\ Cardinality(InFlight("categories")) <= upstreamCalls.categories
    /\ mCache # Null => /\ mCache.data.q = mCache.key
                        /\ mCache.data \in parsed.markets
    /\ (StoredNow /\ event.ep = "markets") =>
           /\ mCache.key = event.key
           /\ mCache.data = event.resp.body
    /\ (StoredNow /\ event.ep = "categories") =>
           cCache.data = event.resp.body

\* two markets requests with different query strings missed together; the
\* second's fetch succeeded first, then the first's
C16_Witness ==
    /\ StoredNow
    /\ event.ep = "markets"
    /\ upstreamCalls.markets = 2
    /\ parsed.markets = {[q |-> "", v |-> 1], [q |-> "?page=2", v |-> 2]}
    /\ mCache.key = ""
    /\ mCache.data = [q |-> "", v |-> 1]
    /\ reqs[1] = DoneReq
    /\ reqs[2] = DoneReq

\* a step of a request to route ep
StepOf(ep) == reqs' # reqs /\ event'.ep = ep

\* the answer to an arriving request follows from the slot of its own route
AnswerFromOwnSlot ==
    /\ (event.type = "arrive" /\ event.ep = "markets") =>
           /\ event.hit = MarketsFresh(mCache, event.key, event.at)
           /\ event.hit => event.resp = Response(200, mCache.data)
    /\ (event.type = "arrive" /\ event.ep = "categories") =>
           /\ event.hit = CategoriesFresh(cCache, event.at)
           /\ event.hit => event.resp = Response(200, cCache.data)
    /\ (event.type = "arrive" /\ event.ep = "chart") => ~event.hit

\* C18: the slots of the markets and categories routes are independent:
\* a request to one route is answered from its own slot and leaves the
\* other route's slot as it was, and a chart request changes neither slot.
C18_SlotsIndependent ==
    /\ [](AnswerFromOwnSlot)
    /\ [][/\ StepOf("markets") => UNCHANGED cCache
          /\ StepOf("categories") => UNCHANGED mCache
          /\ StepOf("chart") => UNCHANGED <<mCache, cCache>>]_vars

\* the categories slot is filled while the markets slot keeps its entry
C18_Witness ==
    /\ StoredNow
    /\ event.ep = "categories"
    /\ mCache # Null
    /\ mCache.data = [q |-> "?page=2", v |-> 1]
    /\ cCache.data = [q |-> "categories", v |-> 2]

\* the request that arrived last
Latest ==
    CHOOSE r \in MarketsReqIds :
        /\ reqs[r].pc # "new"
        /\ \A q \in MarketsReqIds : q > r => reqs[q].pc = "new"

\* the fetch of request r succeeded
Succeeded(r) == \E q \in Queries : [q |-> q, v |-> r] \in parsed.markets

\* the query string of a request whose fetch succeeded
KeyOf(r) == CHOOSE q \in Queries : [q |-> q, v |-> r] \in parsed.markets

\* a markets request arrives after at least one other
LaterMarketsArrival ==
    /\ event.type = "arrive"
    /\ event.ep = "markets"
    /\ Latest >= 2

\* every request before the latest missed and got its payload, and the
\* query strings alternate up to and including the latest, all within the TTL
AlternatingSoFar ==
    /\ \A r \in 1..(Latest - 1) : Succeeded(r)
    /\ \A r \in 1..(Latest - 2) : KeyOf(r) # KeyOf(r + 1)
    /\ KeyOf(Latest - 1) # event.key
    /\ event.at < CACHE_TTL

\* the latest request missed and called the upstream
LatestWentUpstream ==
    /\ ~event.hit
    /\ event.resp = NoResponse
    /\ upstreamCalls.markets = event.callsBefore + 1
    /\ reqs[Latest].pc = "fetching"
    /\ reqs[Latest].key = event.key

\* a successful fetch puts its entry in the place of whatever the slot held
StoreReplaces ==
    (event.type = "settle" /\ event.ep = "markets"
        /\ event.outcome = "json") =>
            /\ DOMAIN mCache = {"key", "data", "timestamp"}
            /\ mCache.key = event.key
            /\ mCache.data = event.resp.body

\* C17 amended: the markets slot holds one entry, which a successful fetch
\* for another query string replaces; a request that finds in the slot the
\* entry of the request just before it, stored for the other query string,
\* is a miss and calls the upstream, however young the entry is.
C17_AlternatingSequentialMiss ==
    /\ StoreReplaces
    /\ (LaterMarketsArrival /\ event.seen # Null
          /\ event.seen.data.v = Latest - 1
          /\ event.seen.key # event.key) => LatestWentUpstream

\* C17 as stated: requests that alternate between two query strings within
\* the TTL, all succeeding, are each a miss and each call the upstream.
C17_Original ==
    /\ StoreReplaces
    /\ (LaterMarketsArrival /\ AlternatingSoFar) => LatestWentUpstream

\* "", "?page=2", "" one after the other: the third finds the second's entry
C17_Witness ==
    /\ LaterMarketsArrival
    /\ AlternatingSoFar
    /\ Latest = 3
    /\ event.key = ""
    /\ event.seen.key = "?page=2"
    /\ event.seen.data.v = 2
    /\ [q |-> "", v |-> 1] \in parsed.markets
    /\ ~event.hit
    /\ upstreamCalls.markets = 3

\* the three mappers returned the same Coin
SameCoin ==
    /\ mapped.adapt = mapped.api
    /\ mapped.api = mapped.hook

\* the fallbacks: 0 for a numeric field that is null or missing, "" for a
\* missing image, undefined for a null or missing circulating_supply
Fallbacks(coin) ==
    /\ rawCoin.market_cap_rank \in {JsNull, Undefined} => coin.rank = Num(0)
    /\ rawCoin.current_price \in {JsNull, Undefined} => coin.price = Num(0)
    /\ rawCoin.price_change_24h \in {JsNull, Undefined} =>
           coin.priceChange24h = Num(0)
    /\ rawCoin.price_change_percentage_24h \in {JsNull, Undefined} =>
           coin.priceChangePct24h = Num(0)
    /\ rawCoin.market_cap \in {JsNull, Undefined} => coin.marketCap = Num(0)
    /\ rawCoin.total_volume \in {JsNull, Undefined} => coin.volume24h = Num(0)
    /\ rawCoin.image = Undefined => coin.image = Str("")
    /\ rawCoin.circulating_supply \in {JsNull, Undefined} =>
           coin.circulatingSupply = Undefined

\* C19 amended: for a market record whose symbol and name are strings and
\* whose numeric fields are each a number, null or missing, the three
\* mappers return the same Coin, with the fallbacks applied.
C19_MappersAgree ==
    (mapped.done /\ rawCoin.symbol.t = "string" /\ rawCoin.name.t = "string") =>
        /\ SameCoin
        /\ Fallbacks(mapped.adapt)
        /\ Fallbacks(mapped.api)
        /\ Fallbacks(mapped.hook)

\* C19 as stated: for any market record whose numeric fields are each a
\* number, null or missing, the three mappers return the same Coin, with
\* the fallbacks applied.
C19_Original ==
    mapped.done =>
        /\ SameCoin
        /\ Fallbacks(mapped.adapt)
        /\ Fallbacks(mapped.api)
        /\ Fallbacks(mapped.hook)

\* a record with null price, no image and null circulating_supply
C19_Witness ==
    /\ mapped.done
    /\ rawCoin.symbol = Str("btc")
    /\ rawCoin.name = Str("Bitcoin")
    /\ rawCoin.current_price = JsNull
    /\ rawCoin.market_cap = Undefined
    /\ rawCoin.image = Undefined
    /\ rawCoin.circulating_supply = JsNull
    /\ rawCoin.market_cap_rank = Num(5)
    /\ mapped.adapt.price = Num(0)
    /\ mapped.adapt.image = Str("")
    /\ mapped.adapt.circulatingSupply = Undefined
    /\ mapped.adapt.rank = Num(5)
    /\ mapped.adapt = mapped.hook

\* C21: the error of the last permitted attempt is propagated without
\* another backoff wait: in every call the number of waits performed is at
\* most the number of GET requests issued minus one.
C21_NoWaitAfterLastAttempt ==
    gets >= 1 => Len(waits) <= gets - 1

\* a step in which the slot of the markets route is written
MarketsWrite == mCache' # mCache

\* a step in which the slot of the categories route is written
CategoriesWrite == cCache' # cCache

\* no write puts an older timestamp in the place of a younger one
TimestampNeverDecreases ==
    /\ (MarketsWrite /\ mCache # Null) =>
           mCache'.timestamp >= mCache.timestamp
    /\ (CategoriesWrite /\ cCache # Null) =>
           cCache'.timestamp >= cCache.timestamp

\* the timestamp written is the time of the write
TimestampIsStoreTime ==
    /\ MarketsWrite => mCache'.timestamp = now'
    /\ CategoriesWrite => cCache'.timestamp = now'

\* C22: under any interleaving of concurrent requests the timestamp in a
\* slot never decreases: each successful write stores a timestamp at least
\* that of the entry it replaces, and equal to the time at which the payload
\* was stored.
C22_TimestampMonotone ==
    [][TimestampNeverDecreases /\ TimestampIsStoreTime]_vars

\* an arriving request that was answered from its slot
HitNow ==
    /\ event.type = "arrive"
    /\ event.ep \in {"markets", "categories"}
    /\ event.hit

\* the slot of route ep
SlotOf(ep) == IF ep = "markets" THEN mCache ELSE cCache

\* a step in which an arriving request is answered from its slot
HitStep == reqs' # reqs /\ event'.type = "arrive" /\ event'.hit

\* C23: a hit on the markets or categories route leaves the slots as they
\* were: key, payload and timestamp are the same after the request as
\* before, so an entry that is served is never older than 30,000 ms counted
\* from its timestamp, however many hits it has served.
C23_HitLeavesSlot ==
    /\ [][HitStep => UNCHANGED <<mCache, cCache, putAt>>]_vars
    /\ [](HitNow =>
            /\ SlotOf(event.ep) = event.seen
            /\ event.at - SlotOf(event.ep).timestamp < CACHE_TTL)

\* a hit 20 ms after the arrival of the request that stored the entry
C23_Witness ==
    /\ HitNow
    /\ event.ep = "markets"
    /\ mCache.timestamp = 0
    /\ event.at = 20
    /\ upstreamCalls.markets = 1
    /\ \A r \in ReqIds : reqs[r] = DoneReq

\* C24: a slot that has been filled is never emptied again: no step of a
\* request, successful, failed or arriving on a stale entry, sets it back
\* to empty, and a stale entry stays until a successful fetch overwrites it.
C24_SlotNeverEmptied ==
    /\ [][/\ mCache # Null => mCache' # Null
          /\ cCache # Null => cCache' # Null]_vars
    /\ [][(reqs' # reqs /\ event'.type = "arrive")
              => UNCHANGED <<mCache, cCache>>]_vars
    /\ [][FailedSettle => UNCHANGED <<mCache, cCache>>]_vars

\* a request found a stale entry, went upstream and failed: the stale entry
\* is still there
C24_Witness ==
    /\ event.type = "settle"
    /\ event.ep = "markets"
    /\ event.outcome \in {"notok", "throws", "badjson"}
    /\ mCache # Null
    /\ now - mCache.timestamp >= CACHE_TTL

\* C25: getAllHighlightsPayload never rejects: whatever sub-fetches fail, it
\* resolves with an object in which each failed group is the empty list and
\* each successful group is that group's result, independently of the
\* others.
PayloadByGroup ==
    /\ hlPc # "rejected"
    /\ (\A g \in GroupNames : subs[g] # Pending) => hlPc = "resolved"
    /\ hlPc = "resolved" =>
           \A g \in GroupNames :
               /\ subs[g] = Rejected => hlPayload[g] = <<>>
               /\ subs[g].kind = "fulfilled" => hlPayload[g] = subs[g].value

C25_HighlightsNeverReject ==
    /\ [](PayloadByGroup)
    /\ (hlPc = "waiting") ~> (hlPc = "resolved")

\* gainers and unlocks failed, the others did not
C25_Witness ==
    /\ hlPc = "resolved"
    /\ subs["gainers"] = Rejected
    /\ subs["unlocks"] = Rejected
    /\ hlPayload = [trending |-> <<"trending">>, gainers |-> <<>>,
                    losers |-> <<"losers">>, newCoins |-> <<>>,
                    unlocks |-> <<>>, mostViewed |-> <<"mostViewed">>]

\* a load wrote coins or error at its end
EndWrote ==
    /\ hookEvent.type = "end"
    /\ hookEvent.mounted
    /\ hookEvent.kind \in {"coins", "error"}

\* every earlier load that was in flight when a load started is aborted
StartAbortsPrevious ==
    hookEvent.type = "start" =>
        \A k \in LoadIds :
            (k # hookEvent.load /\ InFlight_(loads[k])) => loads[k].aborted

\* C26: starting a load aborts the request of the previous load that is
\* still in flight, and coins and error are only ever written by the most
\* recently started load, never by a load that was superseded or aborted.
C26_OnlyLatestLoadWrites ==
    /\ StartAbortsPrevious
    /\ EndWrote => hookEvent.load = hookEvent.latest

\* C27: while the hook is mounted and the most recently started load is in
\* flight, neither settled nor aborted, loading is true.
C27_LoadingWhileLatestInFlight ==
    (/\ mountedRef
     /\ controllerRef # 0
     /\ InFlight_(loads[controllerRef])
     /\ ~loads[controllerRef].aborted) => loading

\* C28: whenever every started highlights load has settled,
\* loadingHighlights is false, also after a load was cancelled by a tab
\* change to whatever tab.
C28_LoadingFlagNotStuck ==
    (\A l \in PageLoadIds : hLoads[l].pc # "waiting")
        => ~loadingHighlights

\* a load is started only for the tabs All and Highlights, with no payload
\* cached
StartOnlyWhenNeeded ==
    pageEvent.type = "start" =>
        /\ pageEvent.tab \in {"All", "Highlights"}
        /\ activeTab = pageEvent.tab
        /\ pageEvent.cached = Null

\* C29: a highlights load is started only when the active tab becomes All
\* or Highlights and no payload is cached; once a payload has been stored,
\* no tab change starts another call of getAllHighlightsPayload, and the
\* stored payload is never replaced or cleared.
C29_PayloadLoadedOnce ==
    /\ [](StartOnlyWhenNeeded)
    /\ [][payloadRef # Null =>
            /\ payloadRef' = payloadRef
            /\ StartedLoads' = StartedLoads]_vars

\* the second load stored the payload while the first, cancelled, was still
\* pending; later the user came back to the All tab
C29_Witness ==
    /\ payloadRef = [from |-> 2]
    /\ hLoads[1] = [pc |-> "done", cancelled |-> TRUE]
    /\ StartedLoads = {1, 2}
    /\ tabChanges = 3
    /\ activeTab = "All"
    /\ pageEvent.type = "norun"
    /\ ~loadingHighlights

\* the index of the last tab button
LastIdx == Len(Tabs) - 1

\* one of the four keys that move the focus was pressed on a tab button
FocusKeyPressed ==
    /\ tabsEvent.type = "key"
    /\ tabsEvent.key \in {"ArrowRight", "ArrowLeft", "Home", "End"}

\* where the focus belongs after such a key
FocusTarget ==
    CASE tabsEvent.key = "ArrowRight" ->
            IF tabsEvent.idx = LastIdx THEN 0 ELSE tabsEvent.idx + 1
      [] tabsEvent.key = "ArrowLeft" ->
            IF tabsEvent.idx = 0 THEN LastIdx ELSE tabsEvent.idx - 1
      [] tabsEvent.key = "Home" -> 0
      [] tabsEvent.key = "End" -> LastIdx

\* an input through which the active tab may change
Activation ==
    \/ tabsEvent'.type = "click"
    \/ tabsEvent'.type = "key" /\ tabsEvent'.key \in {"Enter", " "}

\* C30: ArrowRight, ArrowLeft, Home and End only move the focus between the
\* tab buttons, with wrap-around, and never call onChange; the active tab
\* changes only through a click, Enter or Space on a tab button; exactly the
\* panel of the active tab renders its content.
C30_FocusKeysOnlyMoveFocus ==
    /\ [](FocusKeyPressed =>
            /\ focusIdx = FocusTarget
            /\ active = tabsEvent.activeBefore
            /\ onChangeCalls = tabsEvent.callsBefore)
    /\ [][(active' # active \/ onChangeCalls' # onChangeCalls)
              => Activation]_vars
    /\ [](\E i \in TabIdx : KeyAt(i) = active /\ RenderedPanels = {i})

\* ArrowRight on the last tab, which is not the active one
C30_Witness ==
    /\ FocusKeyPressed
    /\ tabsEvent.key = "ArrowRight"
    /\ tabsEvent.idx = LastIdx
    /\ focusIdx = 0
    /\ active = "Categories"
    /\ onChangeCalls = 1
    /\ RenderedPanels = {2}

=============================================================================
